---- MODULE Spec2Model ----
(***************************************************************************)
(* Model of the Ascnd leaderboard client (client.ts / types.ts):           *)
(*   - AscndClient.constructor: config validation, the auth interceptor,   *)
(*     the gRPC-Web transport options;                                      *)
(*   - submitScore / getLeaderboard / getPlayerRank: one remote call each, *)
(*     the response returned as is, any failure passed through             *)
(*     convertError;                                                        *)
(*   - convertError: ConnectError / Error / anything else -> AscndError.   *)
(*                                                                         *)
(* JavaScript values are modelled as follows.                               *)
(*   - an optional value (undefined or a value) is a tuple of length 0 or 1 *)
(*   - config.baseUrl is a sequence of characters, so that the regular     *)
(*     expression replace can be computed; other strings are TLA+ strings   *)
(*   - a thrown value is a record [kind, message, code, details] where     *)
(*     kind is the runtime class / typeof of the value                      *)
(***************************************************************************)
EXTENDS Integers, Sequences, FiniteSets, TLC

VARIABLES
    config,     \* the config object handed to the constructor (None before)
    given,      \* the fields of that object as they were at construction
    ctorError,  \* the value thrown by the constructor, if it threw
    transport,  \* the transport created by createGrpcWebTransport, if any
    client,     \* this.client, if construction completed
    calls,      \* the facade calls issued so far, in order of issue
    wire        \* the remote invocations the transport has put on the network

vars == <<config, given, ctorError, transport, client, calls, wire>>

None == <<>>

Some(v) == <<v>>

----------------------------------------------------------------------------
(* Bounds of the model *)

MaxUrlLen == 3

MaxCalls == 2

MaxDetails == 2

(* Program constants *)

DefaultTimeoutMs == 30000

----------------------------------------------------------------------------
(* Strings of config.baseUrl: sequences over a two-letter alphabet, one of *)
(* them the slash.                                                          *)

Chars == {"a", "/"}

Urls == UNION {[1..n -> Chars] : n \in 0..MaxUrlLen}

ApiKeys == {"", "k1", "k2"}

Timeouts == {None, Some(0), Some(0 - 1), Some(1), Some(5000), Some(DefaultTimeoutMs)}

AllConfigs == [baseUrl : Urls, apiKey : ApiKeys, timeout : Timeouts]

(* The configs used where the calls, not the config, are explored. *)
CallConfigs == [baseUrl : {<<>>, <<"a", "/">>}, apiKey : ApiKeys, timeout : {None, Some(5000)}]

----------------------------------------------------------------------------
(* AscndClient.constructor *)

(* `!config.baseUrl`, `!config.apiKey`: a string is falsy iff it is empty. *)
FalsyUrl(s) == Len(s) = 0

(* Mutant: the apiKey check is missing. *)
FalsyKeyUnchecked(s) == FALSE

FalsyKey(s) == s = ""

(* new Error("<field> is required"): the configuration error is a plain Error. *)
ConfigurationError(field) == [name |-> "Error", message |-> field \o " is required"]

(* s.replace(/\/$/, ""): the pattern matches one slash at the end of input. *)
StripTrailingSlash(s) ==
    IF Len(s) > 0 /\ s[Len(s)] = "/" THEN SubSeq(s, 1, Len(s) - 1) ELSE s

(* Mutant: `config.timeout || 30000`, which also replaces a supplied 0. *)
NullishTimeoutFalsy(t) == IF t = None \/ t[1] = 0 THEN DefaultTimeoutMs ELSE t[1]

(* config.timeout ?? 30000 *)
NullishTimeout(t) == IF t = None THEN DefaultTimeoutMs ELSE t[1]

TransportOptions(cfg) ==
    [baseUrl          |-> StripTrailingSlash(cfg.baseUrl),
     interceptors     |-> <<"authInterceptor">>,
     defaultTimeoutMs |-> NullishTimeout(cfg.timeout)]

Construct(cfg) ==
    /\ config = None
    /\ config' = Some(cfg)
    /\ given' = Some(cfg)
    /\ IF FalsyUrl(cfg.baseUrl)
       THEN /\ ctorError' = Some(ConfigurationError("baseUrl"))
            /\ UNCHANGED <<transport, client>>
       ELSE IF FalsyKey(cfg.apiKey)
       THEN /\ ctorError' = Some(ConfigurationError("apiKey"))
            /\ UNCHANGED <<transport, client>>
       ELSE /\ transport' = Some(TransportOptions(cfg))
            /\ client' = Some([service |-> "AscndService"])
            /\ UNCHANGED ctorError
    /\ UNCHANGED <<calls, wire>>

----------------------------------------------------------------------------
(* Messages of the service: the requests the caller builds and the         *)
(* responses the service answers with.                                      *)

SubmitScoreRequests ==
    {[leaderboardId |-> "lb", playerId |-> "p1", score |-> 1000, idempotencyKey |-> None],
     [leaderboardId |-> "lb", playerId |-> "p1", score |-> 1000, idempotencyKey |-> Some("idem")]}

GetLeaderboardRequests ==
    {[leaderboardId |-> "lb", limit |-> 10, offset |-> 0],
     [leaderboardId |-> "lb", limit |-> 500, offset |-> 0]}

GetPlayerRankRequests ==
    {[leaderboardId |-> "lb", playerId |-> "p1"]}

SubmitScoreResponses ==
    {[scoreId |-> "s1", rank |-> 1, isNewBest |-> TRUE, wasDeduplicated |-> FALSE,
      anticheat |-> None],
     [scoreId |-> "s1", rank |-> 1, isNewBest |-> FALSE, wasDeduplicated |-> TRUE,
      anticheat |-> None],
     [scoreId |-> "s2", rank |-> 0, isNewBest |-> FALSE, wasDeduplicated |-> FALSE,
      anticheat |-> Some([passed |-> FALSE, action |-> "reject"])]}

GetLeaderboardResponses ==
    {[entries |-> <<>>, totalEntries |-> 0, hasMore |-> FALSE],
     [entries |-> <<[rank |-> 1, playerId |-> "p1", score |-> 1000]>>,
      totalEntries |-> 25, hasMore |-> TRUE]}

GetPlayerRankResponses ==
    {[rank |-> Some(3), totalEntries |-> 25],
     [rank |-> None, totalEntries |-> 25]}

ResponsesOf(method) ==
    CASE method = "submitScore"    -> SubmitScoreResponses
      [] method = "getLeaderboard" -> GetLeaderboardResponses
      [] method = "getPlayerRank"  -> GetPlayerRankResponses

----------------------------------------------------------------------------
(* Values a rejected call can be rejected with (the catch variable is      *)
(* `unknown`): a ConnectError, another Error, or any other thrown value.   *)

(* The Code enum carried by ConnectError.code: a number, 1..16, listed here *)
(* by the name of each code.                                                *)
CodeNames ==
    <<"CANCELED", "UNKNOWN", "INVALID_ARGUMENT", "DEADLINE_EXCEEDED", "NOT_FOUND",
      "ALREADY_EXISTS", "PERMISSION_DENIED", "RESOURCE_EXHAUSTED",
      "FAILED_PRECONDITION", "ABORTED", "OUT_OF_RANGE", "UNIMPLEMENTED", "INTERNAL",
      "UNAVAILABLE", "DATA_LOSS", "UNAUTHENTICATED">>

Codes == DOMAIN CodeNames

Code(name) == CHOOSE n \in Codes : CodeNames[n] = name

Messages == {"boom", ""}

DetailLists == UNION {[1..n -> {"d1", "d2"}] : n \in 0..MaxDetails}

ConnectErrors ==
    [kind : {"ConnectError"}, message : {Some(m) : m \in Messages},
     code : {Some(c) : c \in Codes},
     details : {None} \cup {Some(d) : d \in DetailLists}]

PlainErrors ==
    [kind : {"Error", "TypeError"}, message : {Some(m) : m \in Messages},
     code : {None}, details : {None}]

(* Thrown values that are no Error: an object (with or without a message  *)
(* property), a string, a number, null, undefined.                          *)
OtherThrown ==
    [kind : {"object"}, message : {None} \cup {Some(m) : m \in Messages},
     code : {None}, details : {None}]
    \cup [kind : {"string", "number", "null", "undefined"}, message : {None},
          code : {None}, details : {None}]

AllRawFailures == ConnectErrors \cup PlainErrors \cup OtherThrown

(* The failures used where the calls, not the failure, are explored. *)
CallRawFailures ==
    {[kind |-> "ConnectError", message |-> Some("boom"),
      code |-> Some(Code("NOT_FOUND")), details |-> Some(<<>>)],
     [kind |-> "ConnectError", message |-> Some("boom"),
      code |-> Some(Code("DEADLINE_EXCEEDED")), details |-> Some(<<"d1">>)],
     [kind |-> "Error", message |-> Some("boom"), code |-> None, details |-> None],
     [kind |-> "object", message |-> Some("boom"), code |-> None, details |-> None],
     [kind |-> "string", message |-> None, code |-> None, details |-> None]}

InstanceOfConnectError(error) == error.kind = "ConnectError"

(* Mutant: `error.constructor === Error`, which misses the subclasses. *)
InstanceOfErrorExact(error) == error.kind = "Error"

InstanceOfError(error) == error.kind \in {"ConnectError", "Error", "TypeError"}

----------------------------------------------------------------------------
(* AscndError and convertError *)

AscndError(message, code, details) ==
    [name |-> "AscndError", message |-> message, code |-> code, details |-> details]

Digit == <<"0", "1", "2", "3", "4", "5", "6", "7", "8", "9">>

RECURSIVE NumberToString(_)
(* error.code.toString() on a number: its decimal digits. *)
NumberToString(n) ==
    IF n < 10 THEN Digit[n + 1]
    ELSE NumberToString(n \div 10) \o Digit[(n % 10) + 1]

(* Mutant: `error.details ?`, which takes an empty list for details. *)
TruthyLengthDefined(details) == details # None

(* error.details?.length : undefined or 0 is falsy. *)
TruthyLength(details) == details # None /\ Len(details[1]) > 0

(* Mutant: every failure gets the generic message. *)
convertErrorGeneric(error) ==
    AscndError("Unknown error occurred",
               IF error.kind = "ConnectError" THEN NumberToString(error.code[1]) ELSE "UNKNOWN",
               None)

convertError(error) ==
    IF InstanceOfConnectError(error)
    THEN AscndError(error.message[1],
                    NumberToString(error.code[1]),
                    IF TruthyLength(error.details)
                    THEN Some([details |-> error.details[1]])
                    ELSE None)
    ELSE IF InstanceOfError(error)
    THEN AscndError(error.message[1], "UNKNOWN", None)
    ELSE AscndError("Unknown error occurred", "UNKNOWN", None)

----------------------------------------------------------------------------
(* The call chain: the facade method, the interceptors, the transport.     *)

(* Headers.set(name, value): the header holds exactly this value. *)
HeaderSet(header, value) == Some(value)

(* Mutant: the interceptor forwards without setting the header. *)
authInterceptorForwardOnly(req) == req

(* authInterceptor, up to its call of next(req): req.header.set(...).  The *)
(* key is read from the config object when the call is made.               *)
authInterceptor(req) ==
    [req EXCEPT !.header = HeaderSet(req.header, config[1].apiKey)]

(* Mutant: the facade clamps limit to 1..100 before the call. *)
ForwardedMessageClamped(request) ==
    IF "limit" \in DOMAIN request
    THEN [request EXCEPT !.limit = IF @ > 100 THEN 100 ELSE IF @ < 1 THEN 1 ELSE @]
    ELSE request

(* this.client.<method>(request): the request is handed over as given. *)
ForwardedMessage(request) == request

NewCall(method, request) ==
    [method |-> method, request |-> request, pc |-> "chain",
     header |-> None, message |-> ForwardedMessage(request),
     link |-> 1, authRuns |-> 0,
     response |-> None, raw |-> None, returned |-> None, thrown |-> None]

StartCall(method, request) ==
    /\ client # None
    /\ Len(calls) < MaxCalls
    /\ calls' = Append(calls, NewCall(method, request))
    /\ UNCHANGED <<config, given, ctorError, transport, client, wire>>

submitScore(request) == StartCall("submitScore", request)

getLeaderboard(request) == StartCall("getLeaderboard", request)

getPlayerRank(request) == StartCall("getPlayerRank", request)

(* The next link of transport.interceptors runs, up to its next(req). *)
RunInterceptor(i) ==
    /\ calls[i].pc = "chain"
    /\ calls[i].link <= Len(transport[1].interceptors)
    /\ transport[1].interceptors[calls[i].link] = "authInterceptor"
    /\ LET req == authInterceptor([header |-> calls[i].header, message |-> calls[i].message])
       IN calls' = [calls EXCEPT ![i].header = req.header,
                                 ![i].message = req.message,
                                 ![i].link = @ + 1,
                                 ![i].authRuns = @ + 1]
    /\ UNCHANGED <<config, given, ctorError, transport, client, wire>>

WireOf(i) == {w \in wire : w.call = i}

(* The innermost next(req): the transport puts the request on the network. *)
TransportSend(i) ==
    /\ calls[i].pc = "chain"
    /\ calls[i].link > Len(transport[1].interceptors)
    /\ wire' = wire \cup {[call |-> i, seq |-> Cardinality(WireOf(i)) + 1,
                           target |-> transport[1].baseUrl,
                           method |-> calls[i].method,
                           header |-> calls[i].header,
                           message |-> calls[i].message,
                           timeoutMs |-> transport[1].defaultTimeoutMs]}
    /\ calls' = [calls EXCEPT ![i].pc = "inflight"]
    /\ UNCHANGED <<config, given, ctorError, transport, client>>

(* Mutant: a response that failed anticheat is thrown as an error. *)
FacadeOnSuccessRejecting(response) ==
    IF "anticheat" \in DOMAIN response /\ response.anticheat # None
       /\ ~response.anticheat[1].passed
    THEN [returned |-> None,
          thrown |-> Some([name |-> "AscndError", message |-> "anticheat",
                           code |-> "UNKNOWN", details |-> None])]
    ELSE [returned |-> Some(response), thrown |-> None]

(* `return await this.client.<method>(request)`: the awaited value is returned. *)
FacadeOnSuccess(response) == [returned |-> Some(response), thrown |-> None]

(* Mutant: the catch block swallows the failure and the method returns   *)
(* undefined.                                                              *)
FacadeOnFailureSwallow(error) == [returned |-> None, thrown |-> None]

(* `catch (error) { throw this.convertError(error); }` *)
FacadeOnFailure(error) == [returned |-> None, thrown |-> Some(convertError(error))]

ResolveCall(i, response) ==
    /\ calls[i].pc = "inflight"
    /\ LET out == FacadeOnSuccess(response)
       IN calls' = [calls EXCEPT ![i].pc = IF out.thrown = None THEN "returned" ELSE "threw",
                                 ![i].response = Some(response),
                                 ![i].returned = out.returned,
                                 ![i].thrown = out.thrown]
    /\ UNCHANGED <<config, given, ctorError, transport, client, wire>>

(* Mutant: the calls share one abort state, so that the failure of one   *)
(* call rejects every call in flight.                                      *)
RejectCallShared(i, error) ==
    /\ calls[i].pc = "inflight"
    /\ calls' = [k \in DOMAIN calls |->
                    IF calls[k].pc = "inflight"
                    THEN [calls[k] EXCEPT !.pc = "threw",
                                          !.raw = Some(error),
                                          !.thrown = Some(convertError(error))]
                    ELSE calls[k]]
    /\ UNCHANGED <<config, given, ctorError, transport, client, wire>>

RejectCall(i, error) ==
    /\ calls[i].pc = "inflight"
    /\ LET out == FacadeOnFailure(error)
       IN calls' = [calls EXCEPT ![i].pc = IF out.thrown = None THEN "returned" ELSE "threw",
                                 ![i].raw = Some(error),
                                 ![i].returned = out.returned,
                                 ![i].thrown = out.thrown]
    /\ UNCHANGED <<config, given, ctorError, transport, client, wire>>

(* The per-call deadline.  The facade passes no call options, so the      *)
(* deadline of every call is the transport's defaultTimeoutMs; the         *)
(* transport arms it for every call once it has been given one (a value    *)
(* of 0 or less elapses at once).                                           *)
DeadlineArmed(t) == "defaultTimeoutMs" \in DOMAIN t

(* What the transport rejects a call with when its deadline elapses: a    *)
(* ConnectError with code DEADLINE_EXCEEDED, or the abort error of fetch.  *)
TimeoutFailures ==
    {[kind |-> "ConnectError", message |-> Some("the operation timed out"),
      code |-> Some(Code("DEADLINE_EXCEEDED")), details |-> Some(<<>>)],
     [kind |-> "Error", message |-> Some("The operation was aborted"),
      code |-> None, details |-> None]}

(* The deadline of call i elapses before the remote side has answered. *)
DeadlineElapses(i) ==
    /\ DeadlineArmed(transport[1])
    /\ \E error \in TimeoutFailures : RejectCall(i, error)

(* The caller keeps the object it passed to the constructor and assigns  *)
(* to its fields (the fields of AscndClientConfig are not readonly).       *)
SetConfig(cfg) ==
    /\ client # None
    /\ cfg # config[1]
    /\ config' = Some(cfg)
    /\ UNCHANGED <<given, ctorError, transport, client, calls, wire>>

SetBaseUrl(v) == SetConfig([config[1] EXCEPT !.baseUrl = v])

SetApiKey(v) == SetConfig([config[1] EXCEPT !.apiKey = v])

SetTimeout(v) == SetConfig([config[1] EXCEPT !.timeout = v])

----------------------------------------------------------------------------
Init ==
    /\ config = None
    /\ given = None
    /\ ctorError = None
    /\ transport = None
    /\ client = None
    /\ calls = <<>>
    /\ wire = {}

(* The client at work: one client, up to MaxCalls calls in flight at once. *)
Next ==
    \/ \E cfg \in CallConfigs : Construct(cfg)
    \/ \E request \in SubmitScoreRequests : submitScore(request)
    \/ \E request \in GetLeaderboardRequests : getLeaderboard(request)
    \/ \E request \in GetPlayerRankRequests : getPlayerRank(request)
    \/ \E i \in 1..Len(calls) : RunInterceptor(i)
    \/ \E i \in 1..Len(calls) : TransportSend(i)
    \/ \E i \in 1..Len(calls) : \E response \in ResponsesOf(calls[i].method) :
          ResolveCall(i, response)
    \/ \E i \in 1..Len(calls) : \E error \in CallRawFailures : RejectCall(i, error)

Spec == Init /\ [][Next]_vars

(* The constructor alone, over every config. *)
NextCtor == \E cfg \in AllConfigs : Construct(cfg)

SpecCtor == Init /\ [][NextCtor]_vars

(* The client at work with the deadline of each call: the steps of the   *)
(* call chain are run by the event loop and the deadline timer fires, so   *)
(* these are fair; the remote side may never answer.                        *)
LiveConfigs == [baseUrl : {<<"a">>}, apiKey : {"k1"}, timeout : {None, Some(0)}]

(* The requests and remote failures used where completion is explored. *)
LiveRequests(requests) ==
    {r \in requests : ("idempotencyKey" \in DOMAIN r => r.idempotencyKey = None)
                      /\ ("limit" \in DOMAIN r => r.limit = 10)}

LiveRawFailures == {e \in CallRawFailures : e.kind \in {"Error", "string"}}

NextLive ==
    \/ \E cfg \in LiveConfigs : Construct(cfg)
    \/ \E request \in LiveRequests(SubmitScoreRequests) : submitScore(request)
    \/ \E request \in LiveRequests(GetLeaderboardRequests) : getLeaderboard(request)
    \/ \E request \in LiveRequests(GetPlayerRankRequests) : getPlayerRank(request)
    \/ \E i \in 1..Len(calls) : RunInterceptor(i)
    \/ \E i \in 1..Len(calls) : TransportSend(i)
    \/ \E i \in 1..Len(calls) : \E response \in ResponsesOf(calls[i].method) :
          ResolveCall(i, response)
    \/ \E i \in 1..Len(calls) : \E error \in LiveRawFailures : RejectCall(i, error)
    \/ \E i \in 1..Len(calls) : DeadlineElapses(i)

SpecLive ==
    /\ Init
    /\ [][NextLive]_vars
    /\ \A i \in 1..MaxCalls :
          /\ WF_vars(i \in 1..Len(calls) /\ RunInterceptor(i))
          /\ WF_vars(i \in 1..Len(calls) /\ TransportSend(i))
          /\ WF_vars(i \in 1..Len(calls) /\ DeadlineElapses(i))

(* The client at work while the caller changes the config object it     *)
(* constructed the client with.                                             *)
MutConfig == [baseUrl |-> <<"a", "/">>, apiKey |-> "k1", timeout |-> None]

NextMut ==
    \/ Construct(MutConfig)
    \/ \E v \in {<<"a", "/">>, <<"a", "a">>} : SetBaseUrl(v)
    \/ \E v \in {"k1", "k2"} : SetApiKey(v)
    \/ \E v \in {None, Some(1)} : SetTimeout(v)
    \/ \E request \in LiveRequests(SubmitScoreRequests) : submitScore(request)
    \/ \E request \in LiveRequests(GetLeaderboardRequests) : getLeaderboard(request)
    \/ \E request \in LiveRequests(GetPlayerRankRequests) : getPlayerRank(request)
    \/ \E i \in 1..Len(calls) : RunInterceptor(i)
    \/ \E i \in 1..Len(calls) : TransportSend(i)
    \/ \E i \in 1..Len(calls) : \E response \in ResponsesOf(calls[i].method) :
          ResolveCall(i, response)
    \/ \E i \in 1..Len(calls) : \E error \in LiveRawFailures : RejectCall(i, error)

SpecMut == Init /\ [][NextMut]_vars


NormConfig == [baseUrl |-> <<"a">>, apiKey |-> "k1", timeout |-> None]

NextNorm ==
    \/ Construct(NormConfig)
    \/ \E request \in SubmitScoreRequests : calls = <<>> /\ submitScore(request)
    \/ \E request \in GetLeaderboardRequests : calls = <<>> /\ getLeaderboard(request)
    \/ \E request \in GetPlayerRankRequests : calls = <<>> /\ getPlayerRank(request)
    \/ \E i \in 1..Len(calls) : RunInterceptor(i)
    \/ \E i \in 1..Len(calls) : TransportSend(i)
    \/ \E i \in 1..Len(calls) : \E response \in ResponsesOf(calls[i].method) :
          ResolveCall(i, response)
    \/ \E i \in 1..Len(calls) : \E error \in AllRawFailures : RejectCall(i, error)

SpecNorm == Init /\ [][NextNorm]_vars

----------------------------------------------------------------------------
(* Properties *)

Done(i) == calls[i].pc \in {"returned", "threw"}

(* C1: a config whose baseUrl or apiKey is empty makes the constructor    *)
(* throw its configuration error (a plain Error naming the missing field)  *)
(* with no transport, no client and no remote invocation; any other config *)
(* constructs the client, and construction issues no remote invocation.    *)
C1_ConstructorValidation ==
    config # None =>
        LET cfg == config[1]
        IN IF Len(cfg.baseUrl) = 0 \/ cfg.apiKey = ""
           THEN /\ ctorError # None
                /\ ctorError[1].name = "Error"
                /\ ctorError[1].message \in {"baseUrl is required", "apiKey is required"}
                /\ transport = None
                /\ client = None
                /\ calls = <<>>
                /\ wire = {}
           ELSE /\ ctorError = None
                /\ transport # None
                /\ client # None
                /\ (calls = <<>> => wire = {})

C1_Witness ==
    /\ config # None
    /\ Len(config[1].baseUrl) > 0
    /\ config[1].apiKey = ""
    /\ ctorError = Some([name |-> "Error", message |-> "apiKey is required"])

(* C2: the auth interceptor is the only link of the chain and runs exactly *)
(* once per call; every request the transport puts on the network carries  *)
(* x-api-key equal to the configured apiKey, and the message is the        *)
(* caller's request, untouched.                                             *)
C2_AuthHeaderOnEveryCall ==
    /\ transport # None => transport[1].interceptors = <<"authInterceptor">>
    /\ \A i \in 1..Len(calls) :
          /\ calls[i].authRuns <= 1
          /\ (calls[i].pc # "chain" => calls[i].authRuns = 1)
          /\ calls[i].message = calls[i].request
    /\ \A w \in wire :
          /\ w.header = Some(config[1].apiKey)
          /\ w.message = calls[w.call].request

C2_Witness ==
    /\ Len(calls) = MaxCalls
    /\ \A i \in 1..Len(calls) : Done(i) /\ calls[i].authRuns = 1
    /\ \E w \in wire : w.header = Some("k2") /\ w.method = "getPlayerRank"

(* C3 as stated: every failure of the underlying call reaches the caller   *)
(* as one thrown AscndError, and whenever the raw failure has a message    *)
(* the AscndError carries that message.                                     *)
C3_MessageOfAnyFailure ==
    \A i \in 1..Len(calls) :
        calls[i].raw # None =>
            /\ calls[i].pc = "threw"
            /\ calls[i].returned = None
            /\ calls[i].thrown # None
            /\ calls[i].thrown[1].name = "AscndError"
            /\ (calls[i].raw[1].message # None =>
                    calls[i].thrown[1].message = calls[i].raw[1].message[1])

(* C3, amended: every failure of the underlying call reaches the caller as *)
(* one thrown AscndError, never as a return value; when the raw failure is *)
(* an Error instance the AscndError carries its message, and otherwise the *)
(* message is "Unknown error occurred".                                     *)
C3_MessageOfErrorInstances ==
    \A i \in 1..Len(calls) :
        calls[i].raw # None =>
            /\ calls[i].pc = "threw"
            /\ calls[i].returned = None
            /\ calls[i].thrown # None
            /\ calls[i].thrown[1].name = "AscndError"
            /\ (calls[i].raw[1].kind \in {"ConnectError", "Error", "TypeError"} =>
                    calls[i].thrown[1].message = calls[i].raw[1].message[1])
            /\ (calls[i].raw[1].kind \notin {"ConnectError", "Error", "TypeError"} =>
                    calls[i].thrown[1].message = "Unknown error occurred")

C3_Witness ==
    \E i, j \in 1..Len(calls) :
        /\ calls[i].pc = "threw" /\ calls[i].raw[1].kind = "Error"
        /\ calls[i].thrown[1].message = "boom"
        /\ calls[j].pc = "threw" /\ calls[j].raw[1].kind = "ConnectError"

(* C4 as stated: the code of the AscndError made from a ConnectError is    *)
(* the name of the ConnectError's code, "NOT_FOUND" for NOT_FOUND, and a   *)
(* NOT_FOUND error without details gives no details.                        *)
C4_CodeIsTaxonomyToken ==
    \A i \in 1..Len(calls) :
        (calls[i].raw # None /\ calls[i].raw[1].kind = "ConnectError") =>
            /\ calls[i].thrown[1].code = CodeNames[calls[i].raw[1].code[1]]
            /\ (/\ CodeNames[calls[i].raw[1].code[1]] = "NOT_FOUND"
                /\ calls[i].raw[1].details \in {None, Some(<<>>)})
               => /\ calls[i].thrown[1].code = "NOT_FOUND"
                  /\ calls[i].thrown[1].details = None

C4_Witness ==
    \E i \in 1..Len(calls) :
        /\ calls[i].pc = "threw"
        /\ calls[i].raw[1].kind = "ConnectError"
        /\ CodeNames[calls[i].raw[1].code[1]] = "NOT_FOUND"
        /\ calls[i].raw[1].details = None
        /\ calls[i].thrown[1].code = "5"

(* C5: the AscndError made from a ConnectError has details                 *)
(* {details: raw.details} exactly when the ConnectError's detail list is    *)
(* non-empty, and no details when the list is empty or missing.             *)
C5_DetailsIffNonEmpty ==
    \A i \in 1..Len(calls) :
        (calls[i].raw # None /\ calls[i].raw[1].kind = "ConnectError") =>
            LET d == calls[i].raw[1].details
            IN IF d # None /\ Len(d[1]) > 0
               THEN calls[i].thrown[1].details = Some([details |-> d[1]])
               ELSE calls[i].thrown[1].details = None

C5_Witness ==
    \E i \in 1..Len(calls) :
        /\ calls[i].pc = "threw"
        /\ calls[i].raw[1].kind = "ConnectError"
        /\ calls[i].raw[1].details = Some(<<"d1", "d2">>)
        /\ calls[i].thrown[1].details = Some([details |-> <<"d1", "d2">>])

(* What path 1 of convertError gives, as far as the claim C6 speaks of it: *)
(* the ConnectError's message and its non-empty detail list.                *)
ByPath1(raw, err) ==
    /\ err.message = raw.message[1]
    /\ (raw.details # None /\ Len(raw.details[1]) > 0) => err.details # None

ByPath2(raw, err) ==
    err = [name |-> "AscndError", message |-> raw.message[1], code |-> "UNKNOWN",
           details |-> None]

ByPath3(err) ==
    err = [name |-> "AscndError", message |-> "Unknown error occurred",
           code |-> "UNKNOWN", details |-> None]

(* C6 as stated: a ConnectError is classified by path 1; otherwise any     *)
(* failure that has a message gives {message, "UNKNOWN"}; otherwise (no    *)
(* message) the result is {"Unknown error occurred", "UNKNOWN"}.            *)
C6_ClassifiedByMessage ==
    \A i \in 1..Len(calls) :
        calls[i].raw # None =>
            LET raw == calls[i].raw[1]
                err == calls[i].thrown[1]
            IN IF raw.kind = "ConnectError" THEN ByPath1(raw, err)
               ELSE IF raw.message # None THEN ByPath2(raw, err)
               ELSE ByPath3(err)

(* C6, amended: a ConnectError is classified by path 1; otherwise any      *)
(* Error instance gives {message, "UNKNOWN"} without details; otherwise    *)
(* (any value that is no Error instance, an object with a message property *)
(* included) the result is {"Unknown error occurred", "UNKNOWN"}.           *)
C6_ClassifiedByInstance ==
    \A i \in 1..Len(calls) :
        calls[i].raw # None =>
            LET raw == calls[i].raw[1]
                err == calls[i].thrown[1]
            IN IF raw.kind = "ConnectError" THEN ByPath1(raw, err)
               ELSE IF raw.kind \in {"Error", "TypeError"} THEN ByPath2(raw, err)
               ELSE ByPath3(err)

C6_Witness ==
    \E i \in 1..Len(calls) :
        /\ calls[i].pc = "threw"
        /\ calls[i].raw[1].kind = "object"
        /\ calls[i].raw[1].message = Some("boom")
        /\ calls[i].thrown[1].message = "Unknown error occurred"

(* C7: when the remote call completes with a response, the facade returns  *)
(* exactly that response and throws nothing, also when the response says   *)
(* anticheat failed, the score was deduplicated or the player is unranked. *)
C7_ResponseReturnedUnchanged ==
    \A i \in 1..Len(calls) :
        calls[i].response # None =>
            /\ calls[i].pc = "returned"
            /\ calls[i].returned = calls[i].response
            /\ calls[i].thrown = None

C7_Witness ==
    \E i, j \in 1..Len(calls) :
        /\ calls[i].method = "submitScore" /\ calls[i].pc = "returned"
        /\ calls[i].returned[1].anticheat # None
        /\ ~calls[i].returned[1].anticheat[1].passed
        /\ calls[j].method = "getPlayerRank" /\ calls[j].pc = "returned"
        /\ calls[j].returned[1].rank = None

(* C8: each call of the facade puts one request on the network, never      *)
(* more, also after it failed; the request carries the method called and   *)
(* the caller's request as given; no call is answered without a remote     *)
(* invocation of its own.                                                   *)
C8_OneRemoteInvocationPerCall ==
    /\ \A i \in 1..Len(calls) :
          /\ Cardinality(WireOf(i)) = IF calls[i].pc = "chain" THEN 0 ELSE 1
          /\ \A w \in WireOf(i) :
                w.method = calls[i].method /\ w.message = calls[i].request
    /\ Cardinality(wire) = Cardinality({i \in 1..Len(calls) : calls[i].pc # "chain"})

C8_Witness ==
    /\ Len(calls) >= 2
    /\ calls[1].method = "getLeaderboard" /\ calls[1].request.limit = 500
    /\ calls[2].method = calls[1].method /\ calls[2].request = calls[1].request
    /\ calls[1].pc = "threw" /\ calls[2].pc = "returned"
    /\ Cardinality(wire) >= 2
    /\ \A w \in WireOf(1) : w.message.limit = 500

RECURSIVE StripAllTrailingSlashes(_)
StripAllTrailingSlashes(s) ==
    IF Len(s) > 0 /\ s[Len(s)] = "/"
    THEN StripAllTrailingSlashes(SubSeq(s, 1, Len(s) - 1))
    ELSE s

(* C9 as stated: the transport's baseUrl is config.baseUrl without its     *)
(* trailing slashes, however many there are, so it never ends in a slash.  *)
C9_NoTrailingSlash ==
    transport # None =>
        LET target == transport[1].baseUrl
        IN /\ (Len(target) = 0 \/ target[Len(target)] # "/")
           /\ target = StripAllTrailingSlashes(config[1].baseUrl)

C9_Witness ==
    /\ transport # None
    /\ config[1].baseUrl = <<"a", "/", "/">>
    /\ transport[1].baseUrl = <<"a", "/">>

(* C10 as stated: the timeout in effect is config.timeout when supplied    *)
(* and 30000 when omitted, and it is always greater than 0.                 *)
C10_TimeoutPositive ==
    transport # None =>
        /\ transport[1].defaultTimeoutMs =
              IF config[1].timeout = None THEN 30000 ELSE config[1].timeout[1]
        /\ transport[1].defaultTimeoutMs > 0

(* C10, amended: the timeout in effect is config.timeout when supplied,    *)
(* whatever its value (0 and negative values included), and 30000 when      *)
(* omitted.                                                                 *)
C10_TimeoutAsSupplied ==
    transport # None =>
        transport[1].defaultTimeoutMs =
            IF config[1].timeout = None THEN 30000 ELSE config[1].timeout[1]

C10_Witness ==
    /\ transport # None
    /\ config[1].timeout = Some(0)
    /\ transport[1].defaultTimeoutMs = 0

(* The outcome of a completed call: a returned response, or a thrown      *)
(* AscndError, never both and never neither.                                *)
Completed(i) ==
    \/ /\ calls[i].pc = "returned"
       /\ calls[i].returned # None
       /\ calls[i].thrown = None
    \/ /\ calls[i].pc = "threw"
       /\ calls[i].returned = None
       /\ calls[i].thrown # None
       /\ calls[i].thrown[1].name = "AscndError"

(* C11: every call issued through the facade eventually completes, with a *)
(* returned response or a thrown AscndError; a call ended by its deadline  *)
(* throws an AscndError made by path 1 or path 2 of convertError (the      *)
(* message of the transport's timeout error is kept).                       *)
C11_EveryCallCompletes ==
    /\ [](\A i \in 1..Len(calls) :
            /\ Done(i) => Completed(i)
            /\ (calls[i].raw # None /\ calls[i].raw[1] \in TimeoutFailures) =>
                  /\ calls[i].pc = "threw"
                  /\ calls[i].thrown # None
                  /\ calls[i].thrown[1].name = "AscndError"
                  /\ calls[i].thrown[1].message = calls[i].raw[1].message[1])
    /\ \A i \in 1..MaxCalls :
          (Len(calls) >= i) ~> (Len(calls) >= i /\ Done(i) /\ Completed(i))

C11_Witness ==
    \E i \in 1..Len(calls) :
        /\ calls[i].pc = "threw"
        /\ calls[i].raw[1] \in TimeoutFailures
        /\ calls[i].thrown[1].message = "the operation timed out"
        /\ config[1].timeout = Some(0)

(* The result of call i as far as it is known: what it returned or threw  *)
(* follows from its own transport outcome, and what it put on the network  *)
(* from its own request and the client's key.                               *)
OwnOutcome(i) ==
    /\ calls[i].response # None =>
          calls[i].returned = calls[i].response /\ calls[i].thrown = None
    /\ calls[i].raw # None =>
          calls[i].thrown = Some(convertError(calls[i].raw[1])) /\ calls[i].returned = None
    /\ (calls[i].response = None /\ calls[i].raw = None) =>
          calls[i].returned = None /\ calls[i].thrown = None
    /\ \A w \in WireOf(i) :
          /\ w.method = calls[i].method
          /\ w.message = calls[i].request
          /\ w.header = Some(config[1].apiKey)

(* Two calls with the same request, at the same point of the chain and    *)
(* with the same transport outcome have the same header and the same      *)
(* result, whatever happened to the other calls in between.                 *)
SameOutcome(i, j) ==
    (/\ calls[i].method = calls[j].method
     /\ calls[i].request = calls[j].request
     /\ calls[i].pc = calls[j].pc
     /\ calls[i].link = calls[j].link
     /\ calls[i].response = calls[j].response
     /\ calls[i].raw = calls[j].raw)
    => /\ calls[i].returned = calls[j].returned
       /\ calls[i].thrown = calls[j].thrown
       /\ calls[i].header = calls[j].header

(* C12: with several calls in flight through one client, in any           *)
(* interleaving, a step of one call leaves every other call as it was and  *)
(* leaves the client, its transport and its config as they were; the       *)
(* result of each call follows from its own request and its own transport  *)
(* outcome alone.                                                           *)
C12_IndependentCalls ==
    [][/\ client # None => UNCHANGED <<config, ctorError, transport, client>>
       /\ Len(calls') >= Len(calls)
       /\ \A i \in 1..Len(calls) :
             calls'[i] # calls[i] =>
                 /\ Len(calls') = Len(calls)
                 /\ \A j \in 1..Len(calls) : j # i => calls'[j] = calls[j]
                 /\ \A w \in wire' \ wire : w.call = i
       /\ wire \subseteq wire'
       /\ \A i \in 1..Len(calls') : OwnOutcome(i)'
       /\ \A i, j \in 1..Len(calls') : SameOutcome(i, j)']_vars

C12_Witness ==
    /\ Len(calls) = 2
    /\ calls[1].method = calls[2].method
    /\ calls[1].request = calls[2].request
    /\ calls[1].pc = "inflight"
    /\ calls[2].pc = "threw"
    /\ calls[2].raw[1].kind = "ConnectError"

(* C13 as stated: whatever the caller does to the config object after     *)
(* construction, every call still goes to the endpoint, with the timeout   *)
(* and with the x-api-key of the config as it was at construction.          *)
C13_ConfigFixedAtConstruction ==
    \A w \in wire :
        /\ w.target = StripTrailingSlash(given[1].baseUrl)
        /\ w.timeoutMs = IF given[1].timeout = None THEN 30000 ELSE given[1].timeout[1]
        /\ w.header = Some(given[1].apiKey)

(* The part of C13 that the code keeps: endpoint and timeout are copied   *)
(* into the transport at construction.                                      *)
C13_TargetAndTimeoutFixed ==
    \A w \in wire :
        /\ w.target = StripTrailingSlash(given[1].baseUrl)
        /\ w.timeoutMs = IF given[1].timeout = None THEN 30000 ELSE given[1].timeout[1]

C13_Witness ==
    /\ given = Some(MutConfig)
    /\ config[1].baseUrl # given[1].baseUrl
    /\ config[1].timeout # given[1].timeout
    /\ \E w1, w2 \in wire :
          /\ w1.call = 1 /\ w1.header = Some("k1")
          /\ w2.call = 2 /\ w2.header = Some("k2")
          /\ w2.target = <<"a">>
          /\ w2.timeoutMs = 30000

====
